---------------------------- MODULE Spec2Model ----------------------------
(***************************************************************************)
(* Model of assignment2/NetworkVisualization-TensorFlow.ipynb: the         *)
(* model-loading cell, compute_saliency_maps, make_fooling_image with its  *)
(* check cell, and create_class_visualization.                             *)
(*                                                                         *)
(* Numbers.  Image arrays hold fixed-point reals: the integer v stands for *)
(* v / Unit.  Weights, biases and gradients of a score with respect to a   *)
(* pixel are plain integers; a score is kept in 1/Unit.  A division rounds *)
(* toward zero to the grid, as a float division rounds to the float grid.  *)
(* NaN is one distinguished value that every arithmetic operator           *)
(* propagates; 0/0 produces it.                                            *)
(*                                                                         *)
(* The network.  SqueezeNet itself is an external dependency of the        *)
(* notebook; here `model` ranges over affine classifiers                   *)
(*   classifier[n, c] = sum_p W[c][p] * image[n][p] + b[c]                 *)
(* which score every image of a batch independently, as SqueezeNet does.   *)
(***************************************************************************)
EXTENDS Integers, Sequences, FiniteSets

VARIABLES
    pc,          \* position in the notebook
    exists,      \* os.path.exists(SAVE_PATH)
    model,       \* the global `model` (None until SqueezeNet(...) is built)
    X,           \* the array named X of the running function, shape (N, H, W, 3)
    y,           \* labels (compute_saliency_maps) / predicted class (make_fooling_image)
    target_y,    \* target class
    saliency,    \* result of compute_saliency_maps
    X_fooling,   \* make_fooling_image: the image being perturbed
    i,           \* make_fooling_image: loop counter
    g_val,       \* make_fooling_image: value of tensor g in the last sess.run(dX)
    dX_val,      \* make_fooling_image: dX_val of the last update
    kwargs,      \* create_class_visualization: the keyword arguments as passed
    kw,          \* create_class_visualization: the keyword arguments after kwargs.pop
    X_noise,     \* create_class_visualization: X as first built (before the loop)
    Xi,          \* create_class_visualization: Xi = X.copy()
    t,           \* create_class_visualization: loop index
    ox,          \* create_class_visualization: jitter along axis 1
    oy,          \* create_class_visualization: jitter along axis 2
    grad_val,    \* create_class_visualization: grad_val of the last sess.run(grad)
    steps,       \* create_class_visualization: number of `X += ...` executed
    shown        \* create_class_visualization: number of plt.show() executed

vars == <<pc, exists, model, X, y, target_y, saliency, X_fooling, i, g_val,
          dX_val, kwargs, kw, X_noise, Xi, t, ox, oy, grad_val, steps, shown>>

\* the value of an array variable not assigned yet
None == <<>>

\* the global `model` before SqueezeNet(...) has been built
NoModel == [W |-> <<>>, b |-> <<>>]

-----------------------------------------------------------------------------
(* Bounds of the model *)

\* image height (axis 1) and width (axis 2); the notebook uses 224 x 224
ImgH == 2
ImgW == 3
\* number of classes; the notebook's network has 1000
NumClasses == 2
\* largest batch given to compute_saliency_maps
MaxN == 2
\* fixed-point resolution: image values are multiples of 1/Unit
Unit == 10
\* largest explicit num_iterations / max_jitter keyword
MaxIters == 2
MaxJitter == 1

(* Program constants *)

Channels == 3
n_iterations == 100
learning_rate == 1
NaN == -1073741824

Classes == 0 .. (NumClasses - 1)

\* An array of shape (H, W, 3) is kept flat, in C order: element [h, w, c] is
\* at Idx(h, w, c); a batch of shape (N, H, W, 3) is a sequence of N of them.
NPix == ImgH * ImgW * Channels
Pix == 1 .. NPix
Idx(h, w, c) == (h * ImgW + w) * Channels + c + 1
RowOf(p) == (p - 1) \div (ImgW * Channels)
ColOf(p) == ((p - 1) \div Channels) % ImgW
ChanOf(p) == (p - 1) % Channels
\* An array of shape (H, W) is kept flat too: element [h, w] is at Idx2(h, w)
HW == 1 .. (ImgH * ImgW)
Idx2(h, w) == h * ImgW + w + 1

-----------------------------------------------------------------------------
(* Float arithmetic on the grid *)

Abs(a) == IF a < 0 THEN -a ELSE a

Trunc(a, b) == IF a >= 0 THEN a \div b ELSE -((-a) \div b)

\* floor of the square root
ISqrtOf(v) == CHOOSE k \in 0 .. v : k * k <= v /\ (k + 1) * (k + 1) > v

ISqrt(n) == CHOOSE r \in { ISqrtOf(v) : v \in {n} } : TRUE

FAdd(a, b) == IF a = NaN \/ b = NaN THEN NaN ELSE a + b

FMul(a, b) == IF a = NaN \/ b = NaN THEN NaN ELSE a * b

\* a / b; the only zero divisor the notebook meets is the norm of an all-zero
\* array, whose numerator is 0 too: 0/0 = NaN
FDiv(a, b) == IF a = NaN \/ b = NaN \/ b = 0 THEN NaN ELSE Trunc(a, b)

\* F(v), with v evaluated once and completely, as Python evaluates an argument
With(v, F(_)) == CHOOSE r \in { F(x) : x \in { w \in {v} : w = w } } : TRUE

\* the value of v
Value(v) == With(v, LAMBDA x : x)

\* f[1] + ... + f[n], for numbers
RECURSIVE SumTo(_, _)
SumTo(f, n) == IF n = 0 THEN 0 ELSE f[n] + SumTo(f, n - 1)

HasNaN(img) == \E p \in Pix : img[p] = NaN

\* sum of squares of an array of shape (H, W, 3)
NormSq(img) ==
    IF HasNaN(img) THEN NaN
    ELSE With([p \in Pix |-> img[p] * img[p]], LAMBDA sq : SumTo(sq, NPix))

\* tf.norm: the L2 norm sqrt(sum(x * x))
tf_norm(img) == IF HasNaN(img) THEN NaN ELSE ISqrt(NormSq(img))

-----------------------------------------------------------------------------
(* Images and the network *)

\* a deterministic test pattern with values in {-1, 0, 1} (in units of Unit)
Pattern(s) ==
    [p \in Pix |-> (((RowOf(p) + 2 * ColOf(p) + ChanOf(p) + s) % 3) - 1) * Unit]

ZeroImage == [p \in Pix |-> 0]

InputImages == {ZeroImage} \cup {Pattern(s) : s \in 0 .. 1}

NoiseImages == {Pattern(s) : s \in 0 .. 1}

\* weight images: zero; (3, -4) of norm 5; (3, -4, 12) of norm 13
WeightImage(k) ==
    [p \in Pix |->
        IF k = 0 THEN 0
        ELSE IF p = Idx(0, 0, 0) THEN 3
        ELSE IF p = Idx(0, 0, 1) THEN -4
        ELSE IF k = 2 /\ p = Idx(ImgH - 1, ImgW - 1, 2) THEN 12
        ELSE 0]

Models ==
    { [W |-> [c \in Classes |-> WeightImage(k[c])],
       b |-> [c \in Classes |-> 3 * c]] :
      k \in [Classes -> 0 .. 2] }

\* one row of model.classifier: the scores of one image, in 1/Unit
Scores(m, img) ==
    [c \in Classes |->
        IF HasNaN(img) THEN NaN
        ELSE With([p \in Pix |-> m.W[c][p] * img[p]], LAMBDA wx : SumTo(wx, NPix))
                + m.b[c] * Unit]

\* sess.run(model.classifier, feed_dict={model.image: Xb}), shape (N, NumClasses)
classifier(m, Xb) == [n \in 1 .. Len(Xb) |-> Scores(m, Xb[n])]

\* np.argmax over one row: the first index of the maximum; NaN counts as the maximum
argmax(s) ==
    IF \E c \in Classes : s[c] = NaN
    THEN CHOOSE c \in Classes :
            s[c] = NaN /\ \A d \in Classes : s[d] = NaN => c <= d
    ELSE CHOOSE c \in Classes :
            /\ \A d \in Classes : s[d] <= s[c]
            /\ \A d \in Classes : s[d] = s[c] => c <= d

\* Xb with one Unit (1.0) added to pixel p of image n
Bump(Xb, n, p) == [Xb EXCEPT ![n] = [@ EXCEPT ![p] = FAdd(@, Unit)]]

\* tf.gradients(ys, model.image): the gradient of the (summed) ys with respect
\* to every pixel of the batch, as a list of one tensor of shape (N, H, W, 3).
\* F gives the summed ys in 1/Unit; for the affine networks of this model the
\* unit difference quotient is the exact derivative.
tf_gradients(F(_), Xb) ==
    With(F(Xb), LAMBDA ys :
        << [n \in 1 .. Len(Xb) |->
              [p \in Pix |->
                  IF HasNaN(Xb[n]) THEN NaN
                  ELSE (With(Bump(Xb, n, p), F) - ys) \div Unit]] >>)

-----------------------------------------------------------------------------
(* The model-loading cell *)

\* the cell goes on to SqueezeNet(...) only if it did not raise
MutCheckpointOK(e) == TRUE

CheckpointOK(e) == e

LoadCell(next) ==
    /\ pc = "load"
    /\ IF ~CheckpointOK(exists)
       THEN /\ pc' = "ValueError"
            /\ model' = model
       ELSE /\ \E m \in Models : model' = m
            /\ pc' = next
    /\ UNCHANGED <<exists, X, y, target_y, saliency, X_fooling, i, g_val,
                   dX_val, kwargs, kw, X_noise, Xi, t, ox, oy, grad_val, steps, shown>>

InitKernel ==
    /\ pc = "load"
    /\ exists \in BOOLEAN
    /\ model = NoModel
    /\ X = None /\ y = None /\ target_y = 0 /\ saliency = None
    /\ X_fooling = None /\ i = 0 /\ g_val = None /\ dX_val = None
    /\ kwargs = {} /\ kw = None /\ X_noise = None /\ Xi = None /\ t = 0 /\ ox = 0 /\ oy = 0
    /\ grad_val = None /\ steps = 0 /\ shown = 0

-----------------------------------------------------------------------------
(* compute_saliency_maps *)

\* batches of shape (N, H, W, 3), 1 <= N <= MaxN
Batches == UNION { [1 .. n -> InputImages] : n \in 1 .. MaxN }

\* tf.gather_nd(model.classifier, stack((range(N), labels), axis=1))
correct_scores(m, Xb, labels) ==
    [n \in 1 .. Len(Xb) |-> classifier(m, Xb)[n][labels[n]]]

SumSeq(s) == SumTo(s, Len(s))

\* tf.reduce_sum(list_of_tensors, axis=0)
reduce_sum_axis0(ts) ==
    [n \in DOMAIN ts[1] |->
        [p \in Pix |-> SumTo([k \in DOMAIN ts |-> ts[k][n][p]], Len(ts))]]

MaxOf(S) == CHOOSE a \in S : \A b \in S : b <= a

MutAbsMaxAxis3(G) ==
    [n \in DOMAIN G |->
        [q \in HW |->
            MaxOf({ G[n][(q - 1) * Channels + c + 1] : c \in 0 .. (Channels - 1) })]]

\* np.max(np.abs(G), axis=3): the 3 channels of [n, h, w] are adjacent
AbsMaxAxis3(G) ==
    [n \in DOMAIN G |->
        [q \in HW |->
            MaxOf({ Abs(G[n][(q - 1) * Channels + c + 1]) :
                    c \in 0 .. (Channels - 1) })]]

compute_saliency_maps(Xb, labels, m) ==
    LET grad_image ==
            reduce_sum_axis0(
                tf_gradients(LAMBDA Z : SumSeq(correct_scores(m, Z, labels)), Xb))
    IN  AbsMaxAxis3(grad_image)

SaliencyCell ==
    /\ pc = "saliency_cell"
    /\ \E Xb \in Batches :
         \E labels \in [1 .. Len(Xb) -> Classes] :
            /\ X' = Xb
            /\ y' = labels
            /\ saliency' = compute_saliency_maps(Xb, labels, model)
    /\ pc' = "saliency_done"
    /\ UNCHANGED <<exists, model, target_y, X_fooling, i, g_val, dX_val, kwargs, kw,
                   X_noise, Xi, t, ox, oy, grad_val, steps, shown>>

NextSal == LoadCell("saliency_cell") \/ SaliencyCell

SpecSal == InitKernel /\ [][NextSal]_vars

\* the derivative of the correct-class score of image n alone with respect
\* to its pixel p
PixelGradient(n, p) ==
    (Scores(model, [X[n] EXCEPT ![p] = @ + Unit])[y[n]]
        - Scores(model, X[n])[y[n]]) \div Unit

(* C2: for a batch of shape (N, H, W, 3) compute_saliency_maps returns an     *)
(* array of shape (N, H, W) whose entry [n, h, w] is the maximum over the 3   *)
(* channels c of |d correct_score[n] / d X[n, h, w, c]|; every entry is >= 0. *)
C2_SaliencyIsMaxAbsGradient ==
    pc = "saliency_done" =>
        /\ DOMAIN saliency = 1 .. Len(X)
        /\ \A n \in 1 .. Len(X) :
              /\ DOMAIN saliency[n] = 1 .. (ImgH * ImgW)
              /\ \A h \in 0 .. (ImgH - 1), w \in 0 .. (ImgW - 1) :
                    /\ \A c \in 0 .. (Channels - 1) :
                          saliency[n][Idx2(h, w)] >= Abs(PixelGradient(n, Idx(h, w, c)))
                    /\ \E c \in 0 .. (Channels - 1) :
                          saliency[n][Idx2(h, w)] = Abs(PixelGradient(n, Idx(h, w, c)))
                    /\ saliency[n][Idx2(h, w)] >= 0

\* a batch of two images with different labels, one entry whose maximum comes
\* from a negative gradient (-4 against 3) and one from the third channel
C2_Witness ==
    /\ pc = "saliency_done"
    /\ Len(X) = 2
    /\ y[1] # y[2]
    /\ saliency[1][Idx2(0, 0)] = 4
    /\ saliency[2][Idx2(ImgH - 1, ImgW - 1)] = 12

(* C6: in the model-loading cell, if the checkpoint file at SAVE_PATH does    *)
(* not exist a ValueError is raised and the model is never constructed; the   *)
(* model is constructed only when the file exists.                            *)
C6_ModelOnlyIfCheckpoint ==
    /\ (~exists /\ pc # "load") => pc = "ValueError"
    /\ ~exists => model = NoModel
    /\ pc = "ValueError" => (~exists /\ model = NoModel)
    /\ model # NoModel => exists

C6_Witness == pc = "ValueError" /\ ~exists /\ model = NoModel

-----------------------------------------------------------------------------
(* make_fooling_image and the cell that checks its result *)

\* target_score = model.classifier[0, target_y]
target_score(m, Xb, ty) == classifier(m, Xb)[1][ty]

\* g = tf.gradients(target_score, model.image): a list of one tensor of
\* shape (1, H, W, 3); g_of is that tensor's one image
g_of(m, Xb, ty) == tf_gradients(LAMBDA Z : target_score(m, Z, ty), Xb)[1][1]

MutNormalizedStep(g) ==
    [p \in Pix |-> FMul(0 - 1, FDiv(FMul(learning_rate * Unit, g[p]), tf_norm(g)))]

\* dX = learning_rate * g / tf.norm(g), in 1/Unit
\* (learning_rate * g repeats the Python list g learning_rate = 1 times)
NormalizedStep(g) ==
    [p \in Pix |-> FDiv(FMul(learning_rate * Unit, g[p]), tf_norm(g))]

MutLoopCond(k, pred, ty) == k < n_iterations

\* (i < n_iterations) & (y != target_y)
LoopCond(k, pred, ty) == (k < n_iterations) /\ (pred # ty)

AddImage(a, d) == [p \in Pix |-> FAdd(a[p], d[p])]

FoolCall ==
    /\ pc = "fooling_cell"
    /\ \E img \in InputImages, ty \in Classes :
          /\ X' = <<img>>
          /\ target_y' = ty
          /\ X_fooling' = <<img>>
          /\ y' = argmax(classifier(model, <<img>>)[1])
    /\ i' = 0
    /\ pc' = "fool_while"
    /\ UNCHANGED <<exists, model, saliency, g_val, dX_val, kwargs, kw, X_noise, Xi, t,
                   ox, oy, grad_val, steps, shown>>

FoolUpdate ==
    /\ pc = "fool_while"
    /\ LoopCond(i, y, target_y)
    /\ g_val' = g_of(model, X_fooling, target_y)
    /\ dX_val' = NormalizedStep(g_val')
    /\ X_fooling' = <<AddImage(X_fooling[1], dX_val')>>
    /\ y' = argmax(classifier(model, X_fooling')[1])
    /\ i' = i + 1
    /\ UNCHANGED <<pc, exists, model, X, target_y, saliency, kwargs, kw, X_noise, Xi,
                   t, ox, oy, grad_val, steps, shown>>

FoolReturn ==
    /\ pc = "fool_while"
    /\ ~LoopCond(i, y, target_y)
    /\ pc' = "fool_check"
    /\ UNCHANGED <<exists, model, X, y, target_y, saliency, X_fooling, i, g_val,
                   dX_val, kwargs, kw, X_noise, Xi, t, ox, oy, grad_val, steps, shown>>

\* assert scores[0].argmax() == target_y, 'The network is not fooled!'
FoolCheck ==
    /\ pc = "fool_check"
    /\ pc' = IF argmax(classifier(model, X_fooling)[1]) = target_y
             THEN "fooled" ELSE "AssertionError"
    /\ UNCHANGED <<exists, model, X, y, target_y, saliency, X_fooling, i, g_val,
                   dX_val, kwargs, kw, X_noise, Xi, t, ox, oy, grad_val, steps, shown>>

NextFool ==
    LoadCell("fooling_cell") \/ FoolCall \/ FoolUpdate \/ FoolReturn \/ FoolCheck

SpecFool == InitKernel /\ [][NextFool]_vars

Returned == pc \in {"fool_check", "fooled", "AssertionError"}

\* the class the network assigns to a single image
Predict(img) == argmax(Scores(model, img))

(* C1: the image make_fooling_image returns is classified as target_y by the  *)
(* model, for every input image, target class and model, so the check         *)
(* 'The network is not fooled!' never fails.                                  *)
C1_ReturnedImageIsFooling ==
    /\ Returned => Predict(X_fooling[1]) = target_y
    /\ pc # "AssertionError"

(* C3: no update is applied to X_fooling in a state where the network         *)
(* classifies X_fooling as target_y; if X is already classified as target_y   *)
(* the function performs zero updates and returns an image equal to X.        *)
C3_StopsWhenFooled ==
    /\ [][ (pc = "fool_while" /\ (X_fooling' # X_fooling \/ i' # i))
              => Predict(X_fooling[1]) # target_y ]_vars
    /\ []( (Returned /\ Predict(X[1]) = target_y)
              => (i = 0 /\ X_fooling = X) )

\* the loop stopped early, right after the update that fooled the network
C3_Witness ==
    /\ pc = "fool_check"
    /\ i > 0 /\ i < n_iterations
    /\ Predict(X[1]) # target_y
    /\ Predict(X_fooling[1]) = target_y

\* the derivative of the target-class score with respect to pixel p of img
TargetGradient(img, p) ==
    (Scores(model, [img EXCEPT ![p] = @ + Unit])[target_y]
        - Scores(model, img)[target_y]) \div Unit

Finite(a) == ~HasNaN(a)

NonZero(a) == \E p \in Pix : a[p] # 0

Dot(a, d) == SumTo([p \in Pix |-> a[p] * d[p]], NPix)

\* d is learning_rate * g / ||g||_2 on the grid of 1/Unit: every component is
\* the exact quotient rounded toward zero, so d points along +g and its norm is
\* learning_rate up to that rounding (and exactly learning_rate when no
\* component is rounded)
IsNormalizedAscentStep(d, g) ==
    LET L  == learning_rate * Unit
        G2 == NormSq(g)
    IN  /\ Finite(d)
        /\ \A p \in Pix :
              /\ d[p] * d[p] * G2 <= (L * g[p]) * (L * g[p])
              /\ (L * g[p]) * (L * g[p]) < (Abs(d[p]) + 1) * (Abs(d[p]) + 1) * G2
              /\ d[p] * g[p] >= 0
        /\ Dot(d, g) > 0
        /\ NormSq(d) <= L * L
        /\ ISqrt(NormSq(d)) + ISqrt(Cardinality({p \in Pix : g[p] # 0})) + 1 >= L
        /\ (\A p \in Pix : d[p] * d[p] * G2 = (L * g[p]) * (L * g[p]))
              => NormSq(d) = L * L

\* one update of the loop: X_fooling += dX_val with g the gradient of the
\* target-class score at the image before the update
IsUpdate ==
    /\ pc = "fool_while"
    /\ i' = i + 1
    /\ \A p \in Pix : g_val'[p] = (IF HasNaN(X_fooling[1]) THEN NaN
                                   ELSE TargetGradient(X_fooling[1], p))
    /\ X_fooling' = <<AddImage(X_fooling[1], dX_val')>>

(* C7 as stated: every update adds the step learning_rate * g / ||g||_2,      *)
(* which for every gradient g, the zero gradient included, has L2 norm        *)
(* learning_rate and points along +g.                                         *)
C7_EveryStepIsNormalized ==
    [][ (pc = "fool_while" /\ i' # i)
           => (IsUpdate /\ IsNormalizedAscentStep(dX_val', g_val')) ]_vars

(* C7 amended: every update adds the step learning_rate * g / ||g||_2; for    *)
(* every finite nonzero gradient g the step has L2 norm learning_rate (up to  *)
(* the rounding of the division) and points along +g.  For the zero gradient  *)
(* the step is 0/0 = NaN in every component.                                  *)
C7_NonzeroStepIsNormalized ==
    [][ (pc = "fool_while" /\ i' # i)
           => /\ IsUpdate
              /\ (Finite(g_val') /\ NonZero(g_val'))
                    => IsNormalizedAscentStep(dX_val', g_val')
              /\ (Finite(g_val') /\ ~NonZero(g_val'))
                    => \A p \in Pix : dX_val'[p] = NaN ]_vars

\* an update by the gradient (3, -4): the step is (0.6, -0.8), of norm exactly 1
C7_Witness ==
    /\ pc = "fool_while"
    /\ i > 0
    /\ g_val = WeightImage(1)
    /\ NormSq(dX_val) = (learning_rate * Unit) * (learning_rate * Unit)
    /\ X_fooling[1] # X[1]

-----------------------------------------------------------------------------
(* create_class_visualization *)

\* defaults of the keyword arguments; l2_reg is kept in thousandths (1e-3 = 1)
DefaultL2Reg == 1
DefaultLearningRate == 25
DefaultNumIterations == 100
DefaultBlurEvery == 10
DefaultMaxJitter == 16
DefaultShowEvery == 25

\* SQUEEZENET_MEAN and SQUEEZENET_STD per channel, in thousandths
SQUEEZENET_MEAN == <<485, 456, 406>>
SQUEEZENET_STD == <<229, 224, 225>>

\* kwargs.pop(key, default); kwargs is a set of <<key, value>> pairs
Pop(kws, key, default) ==
    IF \E e \in kws : e[1] = key
    THEN (CHOOSE e \in kws : e[1] = key)[2]
    ELSE default

\* The keyword arguments the function is called with.  max_jitter is always
\* given: the default 16 makes 33 * 33 jitters per iteration.  num_iterations
\* is given (0 .. MaxIters) or left to its default with max_jitter = 0; the
\* other four are all left to their defaults or all given.
OtherKwargs ==
    { {},
      { <<"l2_reg", 1000>>, <<"learning_rate", 1>>, <<"blur_every", 2>>,
        <<"show_every", 2>> } }

KwargsInputs ==
    { {<<"num_iterations", n>>, <<"max_jitter", j>>} \cup o :
        n \in 0 .. MaxIters, j \in 0 .. MaxJitter, o \in OtherKwargs }
    \cup { {<<"max_jitter", 0>>} }

\* loss = model.classifier[0, target_y] - l2_reg * tf.norm(model.image),
\* in 1/(1000 * Unit)
loss(m, Xb, ty, l2) ==
    FAdd(FMul(1000, target_score(m, Xb, ty)), FMul(0 - l2, tf_norm(Xb[1])))

\* grad = tf.gradients(loss, model.image), evaluated at Xb: the gradient of the
\* target score minus l2_reg times the gradient x / ||x|| of tf.norm; in 1/Unit
grad(m, Xb, ty, l2) ==
    With(g_of(m, Xb, ty), LAMBDA gs :
    With(tf_norm(Xb[1]), LAMBDA nx :
        << [p \in Pix |->
              FAdd(FMul(Unit, gs[p]),
                   FMul(0 - 1, FDiv(FMul(l2 * Unit, Xb[1][p]), FMul(1000, nx))))] >>))

\* np.roll(img, s, axis=1) and np.roll(img, s, axis=2) on one image of the batch
Roll1(img, s) ==
    [p \in Pix |-> img[Idx((RowOf(p) - s) % ImgH, ColOf(p), ChanOf(p))]]

Roll2(img, s) ==
    [p \in Pix |-> img[Idx(RowOf(p), (ColOf(p) - s) % ImgW, ChanOf(p))]]

\* np.roll(np.roll(X, ox, 1), oy, 2)
Jitter(img, a, b) == Roll2(Roll1(img, a), b)

MutUndoJitter(img, a, b) == Roll2(Roll1(img, a), b)

\* np.roll(np.roll(X, -ox, 1), -oy, 2)
UndoJitter(img, a, b) == Roll2(Roll1(img, 0 - a), 0 - b)

ClipLo(c) == Trunc((0 - SQUEEZENET_MEAN[c + 1]) * Unit, SQUEEZENET_STD[c + 1])

ClipHi(c) == Trunc((1000 - SQUEEZENET_MEAN[c + 1]) * Unit, SQUEEZENET_STD[c + 1])

\* np.clip(X, -SQUEEZENET_MEAN / SQUEEZENET_STD, (1.0 - SQUEEZENET_MEAN) / SQUEEZENET_STD)
Clip(img) ==
    [p \in Pix |->
        IF img[p] = NaN THEN NaN
        ELSE IF img[p] < ClipLo(ChanOf(p)) THEN ClipLo(ChanOf(p))
        ELSE IF img[p] > ClipHi(ChanOf(p)) THEN ClipHi(ChanOf(p))
        ELSE img[p]]

\* scipy's mode='reflect': index -1 is index 0, index n is index n - 1
Reflect(k, n) == IF k < 0 THEN 0 ELSE IF k >= n THEN n - 1 ELSE k

\* the weights of gaussian_filter1d for sigma = 0.5, in thousandths; the two
\* outermost of its five taps are below one thousandth
Blur3(l, m, r) ==
    FDiv(FAdd(FMul(788, m), FMul(106, FAdd(l, r))), 1000)

gaussian_filter1d_axis1(img) ==
    [p \in Pix |->
        Blur3(img[Idx(Reflect(RowOf(p) - 1, ImgH), ColOf(p), ChanOf(p))],
              img[p],
              img[Idx(Reflect(RowOf(p) + 1, ImgH), ColOf(p), ChanOf(p))])]

gaussian_filter1d_axis2(img) ==
    [p \in Pix |->
        Blur3(img[Idx(RowOf(p), Reflect(ColOf(p) - 1, ImgW), ChanOf(p))],
              img[p],
              img[Idx(RowOf(p), Reflect(ColOf(p) + 1, ImgW), ChanOf(p))])]

blur_image(img) ==
    With(gaussian_filter1d_axis1(img), LAMBDA b1 : gaussian_filter1d_axis2(b1))

MutRangeHas(k, n) == k <= n

\* for t in range(num_iterations): is there an iteration with index k
RangeHas(k, n) == k < n

VisCall ==
    /\ pc = "classvis_cell"
    /\ \E ty \in Classes, ks \in KwargsInputs, noise \in NoiseImages :
          /\ target_y' = ty
          /\ kwargs' = ks
          /\ kw' = [l2_reg         |-> Pop(ks, "l2_reg", DefaultL2Reg),
                    learning_rate  |-> Pop(ks, "learning_rate", DefaultLearningRate),
                    num_iterations |-> Pop(ks, "num_iterations", DefaultNumIterations),
                    blur_every     |-> Pop(ks, "blur_every", DefaultBlurEvery),
                    max_jitter     |-> Pop(ks, "max_jitter", DefaultMaxJitter),
                    show_every     |-> Pop(ks, "show_every", DefaultShowEvery)]
          /\ X' = <<noise>>
          /\ X_noise' = <<noise>>
    /\ t' = 0 /\ steps' = 0 /\ shown' = 0
    /\ pc' = "vis_for"
    /\ UNCHANGED <<exists, model, y, saliency, X_fooling, i, g_val, dX_val, Xi,
                   ox, oy, grad_val>>

VisFor ==
    /\ pc = "vis_for"
    /\ pc' = IF RangeHas(t, kw.num_iterations) THEN "vis_jitter" ELSE "vis_done"
    /\ UNCHANGED <<exists, model, X, y, target_y, saliency, X_fooling, i, g_val,
                   dX_val, kwargs, kw, X_noise, Xi, t, ox, oy, grad_val, steps,
                   shown>>

VisJitter ==
    /\ pc = "vis_jitter"
    /\ \E a \in (0 - kw.max_jitter) .. kw.max_jitter,
          b \in (0 - kw.max_jitter) .. kw.max_jitter :
          /\ ox' = a
          /\ oy' = b
          /\ Xi' = X
          /\ X' = <<Jitter(X[1], a, b)>>
    /\ pc' = "vis_step"
    /\ UNCHANGED <<exists, model, y, target_y, saliency, X_fooling, i, g_val,
                   dX_val, kwargs, kw, X_noise, t, grad_val, steps, shown>>

VisStep ==
    /\ pc = "vis_step"
    /\ grad_val' = Value(grad(model, X, target_y, kw.l2_reg)[1])
    /\ X' = <<[p \in Pix |-> FAdd(X[1][p], FMul(kw.learning_rate, grad_val'[p]))]>>
    /\ steps' = steps + 1
    /\ pc' = "vis_undo"
    /\ UNCHANGED <<exists, model, y, target_y, saliency, X_fooling, i, g_val,
                   dX_val, kwargs, kw, X_noise, Xi, t, ox, oy, shown>>

VisUndo ==
    /\ pc = "vis_undo"
    /\ X' = <<UndoJitter(X[1], ox, oy)>>
    /\ pc' = "vis_clip"
    /\ UNCHANGED <<exists, model, y, target_y, saliency, X_fooling, i, g_val,
                   dX_val, kwargs, kw, X_noise, Xi, t, ox, oy, grad_val, steps,
                   shown>>

VisRegularize ==
    /\ pc = "vis_clip"
    /\ X' = IF t % kw.blur_every = 0
            THEN <<With(Clip(X[1]), LAMBDA clipped : blur_image(clipped))>>
            ELSE <<Clip(X[1])>>
    /\ pc' = "vis_show"
    /\ UNCHANGED <<exists, model, y, target_y, saliency, X_fooling, i, g_val,
                   dX_val, kwargs, kw, X_noise, Xi, t, ox, oy, grad_val, steps,
                   shown>>

VisShow ==
    /\ pc = "vis_show"
    /\ shown' = IF \/ t = 0
                   \/ (t + 1) % kw.show_every = 0
                   \/ t = kw.num_iterations - 1
                THEN shown + 1 ELSE shown
    /\ t' = t + 1
    /\ pc' = "vis_for"
    /\ UNCHANGED <<exists, model, X, y, target_y, saliency, X_fooling, i, g_val,
                   dX_val, kwargs, kw, X_noise, Xi, ox, oy, grad_val, steps>>

NextVis ==
    \/ LoadCell("classvis_cell")
    \/ VisCall \/ VisFor \/ VisJitter \/ VisStep \/ VisUndo \/ VisRegularize
    \/ VisShow

SpecVis == InitKernel /\ [][NextVis]_vars

\* the interpreter keeps executing the running cell
FairSpecVis == SpecVis /\ WF_vars(NextVis)

InVis ==
    pc \in {"vis_for", "vis_jitter", "vis_step", "vis_undo", "vis_clip",
            "vis_show", "vis_done"}

\* the target-class score s_y(I) of the image fed to the network, in 1/Unit
s_y(img) == Scores(model, img)[target_y]

(* C4: the objective whose gradient create_class_visualization ascends is     *)
(* s_y(I) - l2_reg * ||I||_2^2, the target-class score minus l2_reg times the *)
(* squared L2 norm of the image (here in 1/(1000 * Unit)).                    *)
C4_ObjectiveIsSquaredL2 ==
    (InVis /\ Finite(X[1])) =>
        loss(model, X, target_y, kw.l2_reg)
            = 1000 * s_y(X[1]) - Trunc(kw.l2_reg * NormSq(X[1]), Unit)

\* the number of iterations asked for: the keyword, or 100 without it
NumIterationsAsked ==
    IF \E e \in kwargs : e[1] = "num_iterations"
    THEN (CHOOSE e \in kwargs : e[1] = "num_iterations")[2]
    ELSE 100

(* C5: create_class_visualization runs exactly num_iterations iterations (100 *)
(* when the keyword is not given), each taking exactly one gradient step, and *)
(* then returns; it terminates for every num_iterations >= 0, and with        *)
(* num_iterations = 0 it returns the initial preprocessed noise image without *)
(* taking a step or displaying anything.                                      *)
C5_RunsNumIterations ==
    /\ [](pc = "vis_for" => (steps = t /\ t <= NumIterationsAsked))
    /\ [](pc \in {"vis_jitter", "vis_step"}
             => (steps = t /\ t < NumIterationsAsked))
    /\ [](pc \in {"vis_undo", "vis_clip", "vis_show"}
             => (steps = t + 1 /\ t < NumIterationsAsked))
    /\ [](pc = "vis_done"
             => (t = NumIterationsAsked /\ steps = NumIterationsAsked))
    /\ []((pc = "vis_done" /\ NumIterationsAsked = 0)
             => (X = X_noise /\ steps = 0 /\ shown = 0))
    /\ ((pc = "vis_for" /\ t = 0) ~> (pc = "vis_done"))

\* the call without num_iterations has returned after its 100 iterations
C5_Witness ==
    /\ pc = "vis_done"
    /\ ~(\E e \in kwargs : e[1] = "num_iterations")
    /\ t = 100
    /\ steps = 100
    /\ shown > 0

(* C8: in every iteration the jitter is exactly undone: after the undo, the   *)
(* pixel that was at (h, w) before the jitter holds its old value plus        *)
(* learning_rate * grad computed at the jittered position                     *)
(* ((h + ox) mod H, (w + oy) mod W); when the gradient is zero the image      *)
(* after the undo equals the image before the jitter.                         *)
C8_JitterIsUndone ==
    pc = "vis_clip" =>
        /\ \A h \in 0 .. (ImgH - 1), w \in 0 .. (ImgW - 1), c \in 0 .. (Channels - 1) :
              X[1][Idx(h, w, c)] =
                 FAdd(Xi[1][Idx(h, w, c)],
                      FMul(kw.learning_rate,
                           grad_val[Idx((h + ox) % ImgH, (w + oy) % ImgW, c)]))
        /\ (\A p \in Pix : grad_val[p] = 0) => X = Xi

\* an undo of a jitter that moved the image along both axes, after a step by a
\* gradient that is not the same at every position
C8_Witness ==
    /\ pc = "vis_clip"
    /\ ox % ImgH # 0
    /\ oy % ImgW # 0
    /\ Finite(grad_val)
    /\ \E p, q \in Pix : ChanOf(p) = ChanOf(q) /\ grad_val[p] # grad_val[q]
    /\ X # Xi

=============================================================================
